---------------------------- MODULE Spec2Model ----------------------------
(* Model of strava_to_garmin_sync.py: the format converter                *)
(* (convert_strava_to_tcx, a pure function) and the orchestrator (main)   *)
(* with the calls it makes to the source and destination services.        *)
(*                                                                         *)
(* Python values are encoded as follows.  A dict is a function whose      *)
(* domain is its key set (a TLA+ record); None is the record PyNone; a    *)
(* JSON number n is JNum(n), JSON null is JNull, a [lat, lng] pair is      *)
(* JPair(lat, lng).  Sequences are 1-based, so Python's `i < len(x)`      *)
(* for the 0-based index i is `i <= Len(x)` for the 1-based index i.      *)
(* A start_date is the pair <<day, second>>; strftime('%Y-%m-%d') is its  *)
(* first component.                                                       *)
EXTENDS Integers, Sequences, FiniteSets, TLC

VARIABLES
    \* ---- converter harness (SpecConv) ----
    conv_pc,          \* "call" before, "returned" after convert_strava_to_tcx
    conv_activity,    \* the activity argument
    conv_streams,     \* the streams argument
    conv_result,      \* what the call produced
    \* ---- orchestrator (Spec) ----
    pc,               \* position of main()
    config,           \* the five required environment values
    exit_code,        \* process exit status, meaningful when pc = "exited"
    token_status,     \* outcome of the token refresh, "none" before it
    list_status,      \* outcome of the activity listing, "none" before it
    activities,       \* the fetched activity list
    idx,              \* 1-based index of the activity being processed
    cur,              \* locals of the current loop iteration
    garmin_store,     \* <<name, day>> of the activities the destination holds
    files,            \* transient files that exist on disk
    clock,            \* int(time.time()), relative to the start of the run
    uploaded_count,
    skipped_count,
    http,             \* network calls made so far, in order
    hist              \* per processed activity: what happened to it

conv_vars == <<conv_pc, conv_activity, conv_streams, conv_result>>
main_vars == <<pc, config, exit_code, token_status, list_status, activities,
               idx, cur, garmin_store, files, clock, uploaded_count,
               skipped_count, http, hist>>
vars == <<conv_vars, main_vars>>

-----------------------------------------------------------------------------
(* Bounds *)
MaxLen == 2        \* longest stream sequence
MaxActs == 2       \* longest fetched activity list

-----------------------------------------------------------------------------
(* Python / JSON values *)
EmptyDict == [k \in {} |-> 0]
PyNone == [None |-> TRUE]
TypeError == [exception |-> "TypeError"]
JNull == [t |-> "null"]
JNum(n) == [t |-> "num", n |-> n]
JPair(lat, lng) == [t |-> "pair", lat |-> lat, lng |-> lng]

\* d.get(k, default)
DictGet(d, k, default) == IF k \in DOMAIN d THEN d[k] ELSE default

\* Python truthiness of a value that is None, a dict or a non-empty string
Truthy(v) == v # PyNone /\ v # EmptyDict

\* streams.get(key, {}).get('data', [])
StreamData(streams, key) == DictGet(DictGet(streams, key, EmptyDict), "data", <<>>)

-----------------------------------------------------------------------------
(* get_sport_type *)
get_sport_type(strava_type) ==
    CASE strava_type = "Ride" -> "Biking"
      [] strava_type = "Run" -> "Running"
      [] strava_type = "Swim" -> "Swimming"
      [] strava_type = "Walk" -> "Walking"
      [] strava_type = "Hike" -> "Hiking"
      [] strava_type = "VirtualRide" -> "Biking"
      [] strava_type = "Workout" -> "Other"
      [] OTHER -> "Other"

-----------------------------------------------------------------------------
(* convert_strava_to_tcx *)

\* The <Notes> text, as the list of the pieces concatenated.
ActivityNotes(activity) ==
    <<activity.name>>
    \o (IF DictGet(activity, "description", "") # ""
        THEN <<" - ", activity.description>> ELSE <<>>)
    \o (IF DictGet(activity, "gear_id", "") # ""
        THEN <<" | Gear: ", activity.gear_id>> ELSE <<>>)

\* The <Lap> summary elements in front of <Track>.
LapHeader(activity) ==
    LET avg_hr == DictGet(activity, "average_heartrate", 0)
        max_hr == DictGet(activity, "max_heartrate", 0)
        avg_watts == DictGet(activity, "average_watts", 0)
        max_watts == DictGet(activity, "max_watts", 0)
        avg_cadence == DictGet(activity, "average_cadence", 0)
    IN  [StartTime |-> activity.start_date,
         TotalTimeSeconds |-> activity.elapsed_time,
         DistanceMeters |-> activity.distance,
         MaximumSpeed |-> DictGet(activity, "max_speed", 0),
         Calories |-> DictGet(activity, "calories", 0),
         Intensity |-> "Active",
         TriggerMethod |-> "Manual"]
        @@ (IF avg_hr # 0
            THEN [AverageHeartRateBpm |-> avg_hr, MaximumHeartRateBpm |-> max_hr]
            ELSE EmptyDict)
        @@ (IF avg_watts # 0 \/ avg_cadence # 0
            THEN [Extensions |->
                    (IF avg_watts # 0
                     THEN [AvgWatts |-> avg_watts, MaxWatts |-> max_watts]
                     ELSE EmptyDict)
                    @@ (IF avg_cadence # 0
                        THEN [AvgRunCadence |-> avg_cadence] ELSE EmptyDict)]
            ELSE EmptyDict)

\* `i < len(data)` of the loop body, for the 1-based index i
InRange(i, data) == i <= Len(data)

\* has_extensions of the loop body
HasExtensionsBad(i, watts_data, temp_data) == InRange(i, watts_data)
HasExtensions(i, watts_data, temp_data) ==
    InRange(i, watts_data) \/ InRange(i, temp_data)

\* Whether iteration i of the track point loop raises: timedelta(seconds=None),
\* unpacking None into lat, lng, and int(None) all raise TypeError.
TrackpointRaises(streams, i) ==
    \/ StreamData(streams, "time")[i] = JNull
    \/ /\ InRange(i, StreamData(streams, "latlng"))
       /\ StreamData(streams, "latlng")[i] = JNull
    \/ \E key \in {"heartrate", "cadence", "watts", "temp"} :
          /\ InRange(i, StreamData(streams, key))
          /\ StreamData(streams, key)[i] = JNull

\* The <Trackpoint> element emitted by iteration i, as the function from the
\* tags it contains to their content.
Trackpoint(activity, streams, i) ==
    LET time_data == StreamData(streams, "time")
        latlng_data == StreamData(streams, "latlng")
        altitude_data == StreamData(streams, "altitude")
        heartrate_data == StreamData(streams, "heartrate")
        cadence_data == StreamData(streams, "cadence")
        watts_data == StreamData(streams, "watts")
        temp_data == StreamData(streams, "temp")
    IN  [Time |-> <<activity.start_date[1],
                    activity.start_date[2] + time_data[i].n>>]
        @@ (IF InRange(i, latlng_data)
            THEN [Position |-> [LatitudeDegrees |-> latlng_data[i].lat,
                                LongitudeDegrees |-> latlng_data[i].lng]]
            ELSE EmptyDict)
        @@ (IF InRange(i, altitude_data)
            THEN [AltitudeMeters |-> altitude_data[i]] ELSE EmptyDict)
        @@ (IF InRange(i, heartrate_data)
            THEN [HeartRateBpm |-> heartrate_data[i].n] ELSE EmptyDict)
        @@ (IF InRange(i, cadence_data)
            THEN [Cadence |-> cadence_data[i].n] ELSE EmptyDict)
        @@ (IF HasExtensions(i, watts_data, temp_data)
            THEN [Extensions |->
                    (IF InRange(i, watts_data)
                     THEN [Watts |-> watts_data[i].n] ELSE EmptyDict)
                    @@ (IF InRange(i, temp_data)
                        THEN [AirTemperature |-> temp_data[i].n]
                        ELSE EmptyDict)]
            ELSE EmptyDict)

\* The value of the call: PyNone, the exception it raises, or the document.
convert_strava_to_tcx(activity, streams) ==
    IF ~Truthy(streams) \/ "time" \notin DOMAIN streams
    THEN PyNone
    ELSE LET time_data == StreamData(streams, "time")
         IN  IF \E i \in 1..Len(time_data) : TrackpointRaises(streams, i)
             THEN TypeError
             ELSE [Sport |-> get_sport_type(activity.type),
                   Id |-> activity.start_date,
                   Notes |-> ActivityNotes(activity),
                   Lap |-> LapHeader(activity),
                   Track |-> [i \in 1..Len(time_data) |->
                                 Trackpoint(activity, streams, i)]]

IsDocument(v) == v # PyNone /\ v # TypeError /\ "Track" \in DOMAIN v

-----------------------------------------------------------------------------
(* Inputs of the converter *)
StreamKeys == {"time", "latlng", "altitude", "heartrate", "cadence", "watts", "temp"}
OptionalKeys == StreamKeys \ {"time"}

\* The sample recorded at index i of a stream.
SampleValue(key, i) ==
    CASE key = "time" -> JNum(5 * (i - 1))
      [] key = "latlng" -> JPair(40 + i, 70 + i)
      [] key = "watts" -> JNum(i - 1)
      [] OTHER -> JNum(100 + i)

\* A stream entry with len samples; with nullLast its last sample is null.
StreamEntry(key, len, nullLast) ==
    [data |-> [i \in 1..len |->
                 IF nullLast /\ i = len THEN JNull ELSE SampleValue(key, i)]]

\* timeShape: -2 no 'time' key, -1 a 'time' entry without 'data', n >= 0 a
\* 'time' entry with n offsets.  lens[k]: -1 no key k, n >= 0 an entry with n
\* samples.  nullKey: the stream whose last sample is null, or "none".
BuildBundle(timeShape, lens, nullKey) ==
    LET present == {k \in OptionalKeys : lens[k] >= 0}
                   \cup (IF timeShape >= -1 THEN {"time"} ELSE {})
    IN  [k \in present |->
            IF k = "time"
            THEN IF timeShape = -1 THEN EmptyDict
                 ELSE StreamEntry(k, timeShape, nullKey = k)
            ELSE StreamEntry(k, lens[k], nullKey = k)]

\* None and the bundles with at most maxLen samples per stream in which every
\* optional stream is absent, has maxLen samples, or has the one shorter
\* length that the bundle's short streams share.
StreamBundles(maxLen) ==
    {PyNone}
    \cup {BuildBundle(ts, lens, nk) :
            ts \in (-2)..maxLen,
            lens \in UNION {[OptionalKeys -> {0 - 1, short, maxLen}] :
                               short \in 0..maxLen},
            nk \in StreamKeys \cup {"none"}}

BaseActivity(id, name, type, day) ==
    [id |-> id, name |-> name, type |-> type, start_date |-> <<day, 600>>,
     elapsed_time |-> 60, distance |-> 500]

RideActivity ==
    BaseActivity(1, "Morning Ride", "Ride", 1)
    @@ [average_heartrate |-> 140, max_heartrate |-> 150, average_watts |-> 0,
        description |-> "easy"]

YogaActivity ==
    BaseActivity(2, "Yoga", "Yoga", 2) @@ [average_cadence |-> 80, gear_id |-> "b1"]

SampleActivities == {RideActivity, YogaActivity}

-----------------------------------------------------------------------------
(* Converter harness: one call of convert_strava_to_tcx on drawn inputs *)
ConvIdle ==
    /\ conv_pc = "idle"
    /\ conv_activity = PyNone
    /\ conv_streams = PyNone
    /\ conv_result = PyNone

ConvCall ==
    /\ conv_pc = "call"
    /\ conv_result' = convert_strava_to_tcx(conv_activity, conv_streams)
    /\ conv_pc' = "returned"
    /\ UNCHANGED <<conv_activity, conv_streams, main_vars>>

-----------------------------------------------------------------------------
(* Inputs of the orchestrator *)
ConfigKeys == {"STRAVA_CLIENT_ID", "STRAVA_CLIENT_SECRET", "STRAVA_REFRESH_TOKEN",
               "GARMIN_EMAIL", "GARMIN_PASSWORD"}

\* os.getenv gives None for an unset variable, '' for an empty one.
ConfigValues == {"unset", "", "value"}

\* status_code of a response; "ConnectionError" when requests raises instead
HttpOutcomes == {"200", "401", "500", "ConnectionError"}

\* <<name, day>> of the activities the source service may list
SampleActs == {<<"Morning Ride", 1>>, <<"Morning Ride", 2>>, <<"Lunch Run", 1>>}

\* What the destination holds when the run starts
InitialStores == {{}, {<<"Morning Ride", 1>>}}

ActivityLists ==
    UNION {[1..n -> SampleActs] : n \in 0..MaxActs}

\* The JSON of the activity listing for a drawn list of <<name, day>>
ListedActivities(l) ==
    [i \in 1..Len(l) |-> BaseActivity(i, l[i][1], "Ride", l[i][2])]

AllAbsent == [k \in OptionalKeys |-> 0 - 1]

\* Bodies of a 200 response of the streams endpoint
StreamResponses ==
    {EmptyDict,
     BuildBundle(0 - 2, [AllAbsent EXCEPT !["heartrate"] = 1], "none"),
     BuildBundle(0 - 1, AllAbsent, "none"),
     BuildBundle(0, [AllAbsent EXCEPT !["heartrate"] = 0], "none"),
     BuildBundle(1, [AllAbsent EXCEPT !["heartrate"] = 1, !["latlng"] = 1], "none"),
     BuildBundle(1, [AllAbsent EXCEPT !["watts"] = 1], "watts")}

\* Ways a call of upload_to_garmin can go
UploadOutcomes == {"open_raises", "write_raises", "upload_raises",
                   "upload_returns_none", "upload_returns_result"}

NoLocals == [present |-> FALSE, lookup |-> "none", skipped_before |-> 0,
             uploaded_before |-> 0, trail |-> <<>>, streams |-> PyNone,
             tcx_data |-> PyNone]

MainIdle ==
    /\ pc = "idle"
    /\ config = [k \in ConfigKeys |-> "unset"]
    /\ exit_code = 0
    /\ token_status = "none"
    /\ list_status = "none"
    /\ activities = <<>>
    /\ idx = 0
    /\ cur = NoLocals
    /\ garmin_store = {}
    /\ files = {}
    /\ clock = 0
    /\ uploaded_count = 0
    /\ skipped_count = 0
    /\ http = <<>>
    /\ hist = <<>>

-----------------------------------------------------------------------------
(* main and the functions it calls *)

\* sys.exit(code), an uncaught exception (code 1) or main returning (code 0)
Exit(code) ==
    /\ pc' = "exited"
    /\ exit_code' = code

Call(kind) == http' = Append(http, kind)

\* all([...]) over the five values
ConfigValidBad(c) ==
    \A k \in ConfigKeys \ {"GARMIN_PASSWORD"} : c[k] # "unset" /\ c[k] # ""
ConfigValid(c) == \A k \in ConfigKeys : c[k] # "unset" /\ c[k] # ""

validate_config ==
    /\ pc = "validate"
    /\ IF ~ConfigValid(config) THEN Exit(1)
       ELSE pc' = "refresh" /\ UNCHANGED exit_code
    /\ UNCHANGED <<config, token_status, list_status, activities, idx, cur, garmin_store,
                   files, clock, uploaded_count, skipped_count, http, hist,
                   conv_vars>>

\* response.status_code != 200 in get_strava_access_token
RefreshFailedBad(status) == status = "500"
RefreshFailed(status) == status # "200"

get_strava_access_token ==
    /\ pc = "refresh"
    /\ \E status \in HttpOutcomes :
          /\ token_status' = status
          /\ Call("strava_token")
          /\ IF status = "ConnectionError" \/ RefreshFailed(status) THEN Exit(1)
             ELSE pc' = "fetch" /\ UNCHANGED exit_code
    /\ UNCHANGED <<config, list_status, activities, idx, cur, garmin_store, files, clock,
                   uploaded_count, skipped_count, hist, conv_vars>>

\* `not activities` in main
NoActivitiesBad(acts) == FALSE
NoActivities(acts) == acts = <<>>

get_strava_activities ==
    /\ pc = "fetch"
    /\ Call("strava_activities")
    /\ \E status \in HttpOutcomes :
          /\ list_status' = status
          /\ IF status # "200"
             THEN Exit(1) /\ UNCHANGED activities
             ELSE \E l \in ActivityLists :
                     /\ activities' = ListedActivities(l)
                     /\ IF NoActivities(activities') THEN Exit(0)
                        ELSE pc' = "login" /\ UNCHANGED exit_code
    /\ UNCHANGED <<config, token_status, idx, cur, garmin_store, files, clock,
                   uploaded_count, skipped_count, hist, conv_vars>>

create_garmin_client ==
    /\ pc = "login"
    /\ Call("garmin_login")
    /\ \E outcome \in {"ok", "GarthHTTPError"} :
          IF outcome = "ok"
          THEN pc' = "loop" /\ idx' = 1 /\ UNCHANGED exit_code
          ELSE Exit(1) /\ UNCHANGED idx
    /\ UNCHANGED <<config, token_status, list_status, activities, cur, garmin_store, files,
                   clock, uploaded_count, skipped_count, hist, conv_vars>>

\* activity_exists_in_garmin: lookup is what get_activities_by_date did, either
\* the names of that day's activities or an exception.
activity_exists_in_garminBad(lookup, activity_name) == FALSE
activity_exists_in_garmin(lookup, activity_name) ==
    IF lookup.raised THEN FALSE ELSE activity_name \in lookup.names

\* garmin.get_activities_by_date(day, day) when it answers
ActivitiesByDate(day) ==
    [raised |-> FALSE, names |-> {e[1] : e \in {x \in garmin_store : x[2] = day}}]

LookupRaised == [raised |-> TRUE, names |-> {}]

\* The record kept of a processed activity, written when the loop leaves it.
Summary(locals, skipped_after, uploaded_after) ==
    [present |-> locals.present,
     lookup |-> locals.lookup,
     trail |-> locals.trail,
     skipped |-> skipped_after - locals.skipped_before,
     uploaded |-> uploaded_after - locals.uploaded_before]

\* skipped_count += 1; continue
SkipActivity(locals) ==
    /\ skipped_count' = skipped_count + 1
    /\ UNCHANGED uploaded_count
    /\ hist' = Append(hist, Summary(locals, skipped_count + 1, uploaded_count))
    /\ idx' = idx + 1
    /\ cur' = NoLocals
    /\ pc' = "loop"
    /\ UNCHANGED exit_code

\* An uncaught exception inside the loop body
Crash ==
    /\ Exit(1)
    /\ UNCHANGED <<idx, cur, hist, uploaded_count, skipped_count>>

\* Top of the loop body: the duplicate check of activities[idx]
check_duplicate ==
    /\ pc = "loop"
    /\ idx <= Len(activities)
    /\ Call("garmin_lookup")
    /\ \E lookup \in {ActivitiesByDate(activities[idx].start_date[1]), LookupRaised} :
          LET activity == activities[idx]
              locals == [NoLocals EXCEPT
                           !.present = <<activity.name, activity.start_date[1]>>
                                          \in garmin_store,
                           !.lookup = IF lookup.raised THEN "error" ELSE "ok",
                           !.skipped_before = skipped_count,
                           !.uploaded_before = uploaded_count]
          IN  IF activity_exists_in_garmin(lookup, activity.name)
              THEN SkipActivity([locals EXCEPT !.trail = <<"exists">>])
              ELSE /\ cur' = [locals EXCEPT !.trail = <<"not_exists">>]
                   /\ pc' = "download"
                   /\ UNCHANGED <<idx, hist, uploaded_count, skipped_count, exit_code>>
    /\ UNCHANGED <<config, token_status, list_status, activities, garmin_store, files, clock,
                   conv_vars>>

\* `not streams` in main
StreamsMissing(streams) == ~Truthy(streams)

download_activity_gpx ==
    /\ pc = "download"
    /\ Call("strava_streams")
    /\ \E status \in HttpOutcomes :
          IF status = "ConnectionError" THEN Crash
          ELSE \E body \in StreamResponses :
                  LET streams == IF status = "200" THEN body ELSE PyNone
                      returned == IF streams # PyNone /\ DOMAIN streams # {}
                                  THEN "streams" ELSE "no_streams"
                  IN  IF StreamsMissing(streams)
                      THEN SkipActivity([cur EXCEPT !.trail = Append(@, returned)])
                      ELSE /\ cur' = [cur EXCEPT !.trail = Append(@, returned),
                                                 !.streams = streams]
                           /\ pc' = "convert"
                           /\ UNCHANGED <<idx, hist, uploaded_count, skipped_count,
                                          exit_code>>
    /\ UNCHANGED <<config, token_status, list_status, activities, garmin_store, files, clock,
                   conv_vars>>

\* `not tcx_data` in main
ConversionFailedBad(tcx_data) == FALSE
ConversionFailed(tcx_data) == ~Truthy(tcx_data)

convert_step ==
    /\ pc = "convert"
    /\ LET tcx_data == convert_strava_to_tcx(activities[idx], cur.streams)
           returned == IF IsDocument(tcx_data) THEN "document" ELSE "no_document"
       IN  IF tcx_data = TypeError THEN Crash
           ELSE IF ConversionFailed(tcx_data)
           THEN SkipActivity([cur EXCEPT !.trail = Append(@, returned)])
           ELSE /\ cur' = [cur EXCEPT !.trail = Append(@, returned),
                                      !.tcx_data = tcx_data]
                /\ pc' = "upload"
                /\ UNCHANGED <<idx, hist, uploaded_count, skipped_count, exit_code>>
    /\ UNCHANGED <<config, token_status, list_status, activities, garmin_store, files, clock,
                   http, conv_vars>>

\* f'/tmp/strava_activity_{int(time.time())}.tcx'
TempFile == <<"/tmp/strava_activity_", clock, ".tcx">>

\* upload_to_garmin and the count that main keeps of its result
upload_to_garmin ==
    /\ pc = "upload"
    /\ \E outcome \in UploadOutcomes :
          /\ files' = IF outcome \in {"write_raises", "upload_raises"}
                      THEN files \cup {TempFile} ELSE files
          /\ IF outcome \in {"open_raises", "write_raises"}
             THEN UNCHANGED http ELSE Call("garmin_upload")
          /\ IF outcome = "upload_returns_result"
             THEN /\ uploaded_count' = uploaded_count + 1
                  /\ UNCHANGED skipped_count
                  /\ \E stored \in SUBSET {<<activities[idx].name,
                                             activities[idx].start_date[1]>>} :
                        garmin_store' = garmin_store \cup stored
             ELSE /\ skipped_count' = skipped_count + 1
                  /\ UNCHANGED <<uploaded_count, garmin_store>>
    /\ cur' = [cur EXCEPT !.trail = Append(@, "upload")]
    /\ pc' = "sleep"
    /\ UNCHANGED <<config, exit_code, token_status, list_status, activities, idx, clock, hist,
                   conv_vars>>

\* time.sleep(2) at the end of the loop body
sleep ==
    /\ pc = "sleep"
    /\ clock' = clock + 2
    /\ hist' = Append(hist, Summary(cur, skipped_count, uploaded_count))
    /\ idx' = idx + 1
    /\ cur' = NoLocals
    /\ pc' = "loop"
    /\ UNCHANGED <<config, exit_code, token_status, list_status, activities, garmin_store,
                   files, uploaded_count, skipped_count, http, conv_vars>>

\* The loop is over: print the summary, main returns
summarize ==
    /\ pc = "loop"
    /\ idx > Len(activities)
    /\ Exit(0)
    /\ UNCHANGED <<config, token_status, list_status, activities, idx, cur, garmin_store,
                   files, clock, uploaded_count, skipped_count, http, hist,
                   conv_vars>>

-----------------------------------------------------------------------------
(* Specifications *)

\* A run of the script
Init ==
    /\ ConvIdle
    /\ pc = "validate"
    /\ config \in [ConfigKeys -> ConfigValues]
    /\ exit_code = 0
    /\ token_status = "none"
    /\ list_status = "none"
    /\ activities = <<>>
    /\ idx = 0
    /\ cur = NoLocals
    /\ garmin_store \in InitialStores
    /\ files = {}
    /\ clock = 0
    /\ uploaded_count = 0
    /\ skipped_count = 0
    /\ http = <<>>
    /\ hist = <<>>

Next ==
    \/ validate_config
    \/ get_strava_access_token
    \/ get_strava_activities
    \/ create_garmin_client
    \/ check_duplicate
    \/ download_activity_gpx
    \/ convert_step
    \/ upload_to_garmin
    \/ sleep
    \/ summarize

Spec == Init /\ [][Next]_vars

\* One call of the converter on every input within the bounds
InitConv ==
    /\ MainIdle
    /\ conv_pc = "call"
    /\ conv_activity \in SampleActivities
    /\ conv_streams \in StreamBundles(MaxLen)
    /\ conv_result = PyNone

NextConv == ConvCall

SpecConv == InitConv /\ [][NextConv]_vars

-----------------------------------------------------------------------------
(* Properties *)

Range(seq) == {seq[i] : i \in 1..Len(seq)}

\* The trails of the activities processed so far and of the one in progress
Trails == Range([i \in 1..Len(hist) |-> hist[i].trail]) \cup {cur.trail}

DestinationCalls == {"garmin_login", "garmin_lookup", "garmin_upload"}

\* C1: when upload_to_garmin has returned, the transient file that the attempt
\* wrote no longer exists, whether the submit returned or raised.
C1_TransientFileDeleted ==
    pc = "sleep" => TempFile \notin files

\* C2: every processed activity is followed by one 2-second pause, whatever its
\* outcome: at the top of the loop and at the summary, one pause has elapsed
\* per activity processed so far.
C2_PauseAfterEveryActivity ==
    (idx >= 1 /\ pc = "loop") => clock = 2 * (idx - 1)

\* The time-offset sequence of a bundle is empty or absent: no bundle, no
\* 'time' key, a 'time' entry without data, or one whose data is empty.
TimeEmptyOrAbsent(streams) ==
    \/ streams = PyNone
    \/ "time" \notin DOMAIN streams
    \/ "data" \notin DOMAIN streams.time
    \/ streams.time.data = <<>>

\* C3: for a bundle whose time-offset sequence is empty or absent the converter
\* returns no document: it neither raises nor emits a document.
C3_NoDocumentWithoutTimeData ==
    (conv_pc = "returned" /\ TimeEmptyOrAbsent(conv_streams))
        => conv_result = PyNone

\* C4 as stated: an activity that the destination already holds when it is
\* processed is never uploaded and adds exactly one to the skip counter,
\* whatever the outcome of the lookup.
C4_PresentNeverUploaded ==
    /\ \A i \in 1..Len(hist) :
          hist[i].present =>
             /\ "upload" \notin Range(hist[i].trail)
             /\ hist[i].skipped = 1
             /\ hist[i].uploaded = 0
    /\ cur.present => "upload" \notin Range(cur.trail)

\* C4 amended: an activity that the destination already holds when it is
\* processed, and whose lookup answers, is never uploaded and adds exactly one
\* to the skip counter.
C4_PresentAndLookedUpNeverUploaded ==
    /\ \A i \in 1..Len(hist) :
          (hist[i].present /\ hist[i].lookup = "ok") =>
             /\ hist[i].trail = <<"exists">>
             /\ hist[i].skipped = 1
             /\ hist[i].uploaded = 0
    /\ (cur.present /\ cur.lookup = "ok") => cur.trail = <<>>

C4_Witness ==
    \E i \in 1..Len(hist) :
       /\ hist[i].present
       /\ hist[i].lookup = "ok"
       /\ hist[i].skipped = 1

\* C5: after a successful login with a non-empty activity list the run ends
\* only at the summary, with exit code 0 and uploaded + skipped equal to the
\* number of fetched activities.
C5_RunReachesSummary ==
    (pc = "exited" /\ idx >= 1) =>
       /\ exit_code = 0
       /\ uploaded_count + skipped_count = Len(activities)

\* C6: a token refresh answered with a non-success status ends the run with
\* exit code 1, and the refresh is the only network call of the run.
C6_RefreshFailureIsFatal ==
    token_status \in {"401", "500"} =>
       /\ pc = "exited"
       /\ exit_code = 1
       /\ http = <<"strava_token">>

C6_Witness ==
    /\ token_status = "401"
    /\ pc = "exited"
    /\ exit_code = 1

\* C7: an activity listing with 0 entries ends the run with exit code 0 and
\* the destination service is never contacted.
C7_EmptyListEndsRun ==
    (list_status = "200" /\ activities = <<>>) =>
       /\ pc = "exited"
       /\ exit_code = 0
       /\ http = <<"strava_token", "strava_activities">>
       /\ Range(http) \cap DestinationCalls = {}

C7_Witness ==
    /\ list_status = "200"
    /\ activities = <<>>
    /\ pc = "exited"
    /\ exit_code = 0

\* C8: with one of the five required values unset or empty the run ends with
\* exit code 1 and no network call is ever made.
C8_MissingConfigIsFatal ==
    (\E k \in ConfigKeys : config[k] \in {"unset", ""}) =>
       /\ pc = "validate" \/ (pc = "exited" /\ exit_code = 1)
       /\ http = <<>>

C8_Witness ==
    /\ pc = "exited"
    /\ exit_code = 1
    /\ config["GARMIN_PASSWORD"] = ""
    /\ \A k \in ConfigKeys \ {"GARMIN_PASSWORD"} : config[k] = "value"

\* The source sequence of a stream has an entry at index i.
HasEntry(streams, key, i) ==
    /\ key \in DOMAIN streams
    /\ "data" \in DOMAIN streams[key]
    /\ i <= Len(streams[key].data)

\* C9: in an emitted document there is one track point per time offset, and
\* the track point of index i contains position, altitude, heart rate,
\* cadence, power and temperature exactly when the source stream has an entry
\* at i, with the source's value; the extension block is there exactly when
\* power or temperature is.
C9_OptionalFieldsIffSourceEntry ==
    (conv_pc = "returned" /\ IsDocument(conv_result)) =>
       /\ \A i \in 1..(Len(conv_result.Track) + 1) :
             i <= Len(conv_result.Track) <=> HasEntry(conv_streams, "time", i)
       /\ \A i \in 1..Len(conv_result.Track) :
             LET tp == conv_result.Track[i]
                 src(key) == conv_streams[key].data[i]
                 ext == IF "Extensions" \in DOMAIN tp THEN tp.Extensions
                        ELSE EmptyDict
             IN  /\ "Position" \in DOMAIN tp <=> HasEntry(conv_streams, "latlng", i)
                 /\ "AltitudeMeters" \in DOMAIN tp
                       <=> HasEntry(conv_streams, "altitude", i)
                 /\ "HeartRateBpm" \in DOMAIN tp
                       <=> HasEntry(conv_streams, "heartrate", i)
                 /\ "Cadence" \in DOMAIN tp <=> HasEntry(conv_streams, "cadence", i)
                 /\ "Extensions" \in DOMAIN tp
                       <=> (HasEntry(conv_streams, "watts", i)
                            \/ HasEntry(conv_streams, "temp", i))
                 /\ "Watts" \in DOMAIN ext <=> HasEntry(conv_streams, "watts", i)
                 /\ "AirTemperature" \in DOMAIN ext
                       <=> HasEntry(conv_streams, "temp", i)
                 /\ DOMAIN tp \subseteq {"Time", "Position", "AltitudeMeters",
                                         "HeartRateBpm", "Cadence", "Extensions"}
                 /\ DOMAIN ext \subseteq {"Watts", "AirTemperature"}
                 /\ "Position" \in DOMAIN tp =>
                       /\ tp.Position.LatitudeDegrees = src("latlng").lat
                       /\ tp.Position.LongitudeDegrees = src("latlng").lng
                 /\ "AltitudeMeters" \in DOMAIN tp
                       => tp.AltitudeMeters = src("altitude")
                 /\ "HeartRateBpm" \in DOMAIN tp
                       => tp.HeartRateBpm = src("heartrate").n
                 /\ "Cadence" \in DOMAIN tp => tp.Cadence = src("cadence").n
                 /\ "Watts" \in DOMAIN ext => ext.Watts = src("watts").n
                 /\ "AirTemperature" \in DOMAIN ext
                       => ext.AirTemperature = src("temp").n

\* A document whose first track point has temperature but no power, and whose
\* second has neither; position on the first only.
C9_Witness ==
    /\ conv_pc = "returned"
    /\ IsDocument(conv_result)
    /\ Len(conv_result.Track) = 2
    /\ DOMAIN conv_result.Track[1] = {"Time", "Position", "Extensions"}
    /\ DOMAIN conv_result.Track[1].Extensions = {"AirTemperature"}
    /\ DOMAIN conv_result.Track[2] = {"Time"}

\* C10: an upload is attempted for an activity only after its duplicate check
\* said it does not exist, its stream download gave data and its conversion
\* gave a document, in that order, and at most once; upload attempts never
\* outnumber the fetched activities.
C10_UploadOnlyAfterChecks ==
    /\ \A t \in Trails :
          "upload" \in Range(t)
             => t = <<"not_exists", "streams", "document", "upload">>
    /\ Cardinality({i \in 1..Len(hist) : "upload" \in Range(hist[i].trail)})
          + (IF "upload" \in Range(cur.trail) THEN 1 ELSE 0) <= Len(activities)
    /\ Cardinality({i \in 1..Len(http) : http[i] = "garmin_upload"})
          <= Len(activities)

C10_Witness ==
    /\ pc = "sleep"
    /\ cur.trail = <<"not_exists", "streams", "document", "upload">>
    /\ http[Len(http)] = "garmin_upload"

=============================================================================
